---- MODULE Spec2Model ----
(***************************************************************************)
(* Model of src/address_book.py: Field / Name / Phone value holders, the   *)
(* Record of one contact (a name and a list of Phone objects) and the      *)
(* AddressBook (a UserDict from contact name to Record).                   *)
(*                                                                         *)
(* A Python str is a sequence of one-character strings, so that the        *)
(* validation of Phone can look at every character; contact names are      *)
(* never inspected by the code and stay TLA+ strings.                      *)
(***************************************************************************)
EXTENDS Naturals, Sequences, FiniteSets, TLC

VARIABLES records, data, last, prev

vars == <<records, data, last, prev>>

\* ------------------------------------------------------------------ bounds
\* add_phone is not offered once a record holds MaxPhones phones.
MaxPhones == 2

\* ------------------------------------------------------------ characters
\* len(value) == 10 in Phone.__init__
PhoneLen == 10

AsciiDigits == {"0", "1", "2", "3", "4", "5", "6", "7", "8", "9"}

\* Characters outside 0-9 for which Python's str.isdigit() is true
\* (Numeric_Type Digit or Decimal): SUPERSCRIPT TWO and SUPERSCRIPT THREE.
UnicodeDigits == {"²", "³"}

\* Characters for which str.isdigit() is false.
NonDigits == {"a", "-", " ", "+", "½"}

\* str.isdigit(): true iff the string is non-empty and every character is a digit.
isdigit(value) ==
    /\ Len(value) >= 1
    /\ \A i \in 1..Len(value) : value[i] \in AsciiDigits \cup UnicodeDigits

\* ------------------------------------------------------------------ values
None == [kind |-> "None"]
Bool(b) == [kind |-> "bool", val |-> b]
Str(s) == [kind |-> "str", val |-> s]
Ref(id) == [kind |-> "Record", val |-> id]
Obj(o) == [kind |-> "Phone", val |-> o]
Raise(e) == [kind |-> "raise", val |-> e]

\* ------------------------------------------------------------ Field / Name
Field(value) == [value |-> value]

\* str(self.value): the value is a str, and str() of a str is that str.
Field_str(self) == self.value

Name(value) == Field(value)

\* Phone with the length test off by one: len(value) == 9.
Phone_LengthOffByOne(value) ==
    IF isdigit(value) /\ Len(value) = PhoneLen - 1
    THEN Obj([value |-> value])
    ELSE Raise("ValueError")

\* Phone.__init__: the Phone object, or the ValueError it raises.
Phone(value) ==
    IF isdigit(value) /\ Len(value) = PhoneLen
    THEN Obj([value |-> value])
    ELSE Raise("ValueError")

\* ------------------------------------------------------------------ Record
\* Record.__init__
Record(name) == [name |-> Name(name), phones |-> <<>>]

\* Index of the first phone whose value equals phone, 0 when there is none
\* (the for loops of find_phone and remove_phone stop at the first match).
FirstIndex(phones, phone) ==
    IF \E i \in 1..Len(phones) : phones[i].value = phone
    THEN CHOOSE i \in 1..Len(phones) :
            /\ phones[i].value = phone
            /\ \A j \in 1..(i - 1) : phones[j].value # phone
    ELSE 0

RemoveAt(s, i) == SubSeq(s, 1, i - 1) \o SubSeq(s, i + 1, Len(s))

\* Record.find_phone: the returned value.
find_phone(self, phone) ==
    LET i == FirstIndex(self.phones, phone)
    IN  IF i = 0 THEN None ELSE Str(self.phones[i].value)

\* remove_phone dropping every phone equal to phone, not the first one.
remove_phone_AllMatches(self, phone) ==
    LET Other(p) == p.value # phone
    IN  IF FirstIndex(self.phones, phone) = 0
        THEN [self |-> self, ret |-> None]
        ELSE [self |-> [self EXCEPT !.phones = SelectSeq(self.phones, Other)],
              ret  |-> Bool(TRUE)]

\* Record.remove_phone: the record afterwards and the returned value.
remove_phone(self, phone) ==
    LET i == FirstIndex(self.phones, phone)
    IN  IF i = 0
        THEN [self |-> self, ret |-> None]
        ELSE [self |-> [self EXCEPT !.phones = RemoveAt(self.phones, i)],
              ret  |-> Bool(TRUE)]

\* Record.add_phone: the record afterwards and the returned value (None) or
\* the ValueError of Phone.
add_phone(self, phone) ==
    LET p == Phone(phone)
    IN  IF p.kind = "raise"
        THEN [self |-> self, ret |-> p]
        ELSE [self |-> [self EXCEPT !.phones = Append(self.phones, p.val)],
              ret  |-> None]

\* edit_phone without its call of remove_phone.
edit_phone_SkipsRemove(self, old_phone, new_phone) ==
    IF find_phone(self, old_phone) = None
    THEN [self |-> self, ret |-> Bool(FALSE)]
    ELSE LET added == add_phone(self, new_phone)
         IN  IF added.ret.kind = "raise"
             THEN added
             ELSE [self |-> added.self, ret |-> Bool(TRUE)]

\* edit_phone building Phone(new_phone) before it looks for old_phone.
edit_phone_ValidatesFirst(self, old_phone, new_phone) ==
    LET p == Phone(new_phone)
    IN  IF p.kind = "raise"
        THEN [self |-> self, ret |-> p]
        ELSE IF find_phone(self, old_phone) = None
        THEN [self |-> self, ret |-> Bool(FALSE)]
        ELSE [self |-> add_phone(remove_phone(self, old_phone).self, new_phone).self,
              ret  |-> Bool(TRUE)]

\* Record.edit_phone: find, then remove, then add; the ValueError of add_phone
\* leaves the record as remove_phone left it.
edit_phone(self, old_phone, new_phone) ==
    IF find_phone(self, old_phone) = None
    THEN [self |-> self, ret |-> Bool(FALSE)]
    ELSE LET removed == remove_phone(self, old_phone).self
             added   == add_phone(removed, new_phone)
         IN  IF added.ret.kind = "raise"
             THEN added
             ELSE [self |-> added.self, ret |-> Bool(TRUE)]

\* '; '.join(p.value for p in self.phones)
RECURSIVE Chars(_)
Chars(s) == IF s = <<>> THEN "" ELSE Head(s) \o Chars(Tail(s))

RECURSIVE Join(_, _)
Join(sep, phones) ==
    IF phones = <<>> THEN ""
    ELSE IF Len(phones) = 1 THEN Chars(Head(phones).value)
    ELSE Chars(Head(phones).value) \o sep \o Join(sep, Tail(phones))

\* Record.__str__
Record_str(self) ==
    "Contact name: " \o self.name.value \o ", phones: " \o Join("; ", self.phones)

\* ------------------------------------------------------------- AddressBook
\* self.data is a dict: a sequence of (key, value) entries in insertion
\* order with unique keys; the value is the reference of a Record.
KeyIndex(d, key) ==
    IF \E i \in 1..Len(d) : d[i].key = key
    THEN CHOOSE i \in 1..Len(d) : d[i].key = key
    ELSE 0

Keys(d) == {d[i].key : i \in 1..Len(d)}

\* d[key] = value: an existing key keeps its position.
DictSet(d, key, value) ==
    LET i == KeyIndex(d, key)
    IN  IF i = 0
        THEN Append(d, [key |-> key, value |-> value])
        ELSE [d EXCEPT ![i].value = value]

\* add_record as self.data.setdefault(key, record): an existing entry stays.
add_record_KeepsExisting(d, record) ==
    IF records[record].name.value \in Keys(d)
    THEN d
    ELSE DictSet(d, records[record].name.value, record)

\* AddressBook.add_record: self.data afterwards; record is a reference into
\* records, the key is record.name.value.
add_record(d, record) == DictSet(d, records[record].name.value, record)

\* AddressBook.find: self.data.get(name).
find(d, name) ==
    LET i == KeyIndex(d, name)
    IN  IF i = 0 THEN None ELSE Ref(d[i].value)

\* delete as self.data.pop(name, None) followed by return True.
delete_AlwaysTrue(d, name) ==
    IF name \in Keys(d)
    THEN [data |-> RemoveAt(d, KeyIndex(d, name)), ret |-> Bool(TRUE)]
    ELSE [data |-> d, ret |-> Bool(TRUE)]

\* AddressBook.delete: self.data afterwards and the returned value.
delete(d, name) ==
    IF name \in Keys(d)
    THEN [data |-> RemoveAt(d, KeyIndex(d, name)), ret |-> Bool(TRUE)]
    ELSE [data |-> d, ret |-> Bool(FALSE)]

\* ------------------------------------------------------------------ inputs
P1 == <<"1", "2", "3", "4", "5", "6", "7", "8", "9", "0">>
P2 == <<"5", "5", "5", "5", "5", "5", "5", "5", "5", "5">>
P3 == <<"1", "1", "1", "2", "2", "2", "3", "3", "3", "3">>
P4 == <<"9", "8", "7", "6", "5", "4", "3", "2", "1", "0">>

\* A letter among the digits, a superscript digit among the digits.
Letter == [P1 EXCEPT ![PhoneLen] = "a"]
Super == [P1 EXCEPT ![PhoneLen] = "²"]

DemoPhones == {P1, P2, P3, P4}

\* The strings given to the Phone constructor: the phones of the demo, each
\* with one character replaced, cut short, or extended by one character.
Replaced == {[p EXCEPT ![i] = c] : p \in DemoPhones, i \in 1..PhoneLen,
                                   c \in NonDigits \cup UnicodeDigits}
Prefixes == {SubSeq(p, 1, n) : p \in DemoPhones, n \in 0..(PhoneLen - 1)}
Extended == {Append(p, c) : p \in DemoPhones, c \in {"0", "a", "²"}}
PhoneStrings == DemoPhones \cup Replaced \cup Prefixes \cup Extended

RecordPhones == {P1, P2, P3, Letter, Super}
PairPhones == {P1, P2, Letter, Super}
BookPhones == {P1}
ProgramPhones == {P1, Letter, Super}

Names == {"John", "Jane"}
RecIds == {"r1", "r2"}
BookIds == {"r1", "r2", "r3"}

\* ------------------------------------------------------------------- calls
\* The last call made and the one before it: method, receiver, arguments and
\* outcome (the returned value or the raised error).
Call(op, self, phone, new_phone, name, ret) ==
    [op |-> op, self |-> self, phone |-> phone, new_phone |-> new_phone,
     name |-> name, ret |-> ret]

NoCall == Call("none", "-", <<>>, <<>>, "", None)

\* prev is a history variable.  A specification whose properties speak of two
\* consecutive calls starts it at NoCall and every call then moves last into
\* it; the others start it at NotRecorded, where it stays.
NotRecorded == Call("not recorded", "-", <<>>, <<>>, "", None)

Returns(call) ==
    /\ last' = call
    /\ prev' = IF prev = NotRecorded THEN NotRecorded ELSE last

\* No record exists and the book is empty (book = AddressBook()).
Init ==
    /\ records = <<>>
    /\ data = <<>>
    /\ last = NoCall
    /\ prev = NotRecorded

InitRecorded ==
    /\ records = <<>>
    /\ data = <<>>
    /\ last = NoCall
    /\ prev = NoCall

\* Phone(value)
NewPhone(value) ==
    /\ Returns(Call("Phone", "-", value, <<>>, "", Phone(value)))
    /\ UNCHANGED <<records, data>>

\* Record(name): a new object id
NewRecord(id, name) ==
    /\ id \notin DOMAIN records
    /\ records' = (id :> Record(name)) @@ records
    /\ Returns(Call("Record", id, <<>>, <<>>, name, Ref(id)))
    /\ UNCHANGED data

\* id.add_phone(phone)
AddPhone(id, phone) ==
    /\ id \in DOMAIN records
    /\ Len(records[id].phones) < MaxPhones
    /\ LET r == add_phone(records[id], phone)
       IN  /\ records' = [records EXCEPT ![id] = r.self]
           /\ Returns(Call("add_phone", id, phone, <<>>, "", r.ret))
    /\ UNCHANGED data

\* id.edit_phone(old_phone, new_phone)
EditPhone(id, old_phone, new_phone) ==
    /\ id \in DOMAIN records
    /\ LET r == edit_phone(records[id], old_phone, new_phone)
       IN  /\ records' = [records EXCEPT ![id] = r.self]
           /\ Returns(Call("edit_phone", id, old_phone, new_phone, "", r.ret))
    /\ UNCHANGED data

\* id.find_phone(phone)
FindPhone(id, phone) ==
    /\ id \in DOMAIN records
    /\ Returns(Call("find_phone", id, phone, <<>>, "", find_phone(records[id], phone)))
    /\ UNCHANGED <<records, data>>

\* id.remove_phone(phone)
RemovePhone(id, phone) ==
    /\ id \in DOMAIN records
    /\ LET r == remove_phone(records[id], phone)
       IN  /\ records' = [records EXCEPT ![id] = r.self]
           /\ Returns(Call("remove_phone", id, phone, <<>>, "", r.ret))
    /\ UNCHANGED data

\* book.add_record(id)
AddRecord(id) ==
    /\ id \in DOMAIN records
    /\ data' = add_record(data, id)
    /\ Returns(Call("add_record", id, <<>>, <<>>, records[id].name.value, None))
    /\ UNCHANGED records

\* book.find(name)
Find(name) ==
    /\ Returns(Call("find", "-", <<>>, <<>>, name, find(data, name)))
    /\ UNCHANGED <<records, data>>

\* book.delete(name)
Delete(name) ==
    /\ LET r == delete(data, name)
       IN  /\ data' = r.data
           /\ Returns(Call("delete", "-", <<>>, <<>>, name, r.ret))
    /\ UNCHANGED records

\* ---------------------------------------------------------- specifications
\* The calls on the records ids with phone arguments from phones.
RecordCalls(ids, phones) ==
    \/ \E id \in ids, name \in Names : NewRecord(id, name)
    \/ \E id \in ids, phone \in phones : AddPhone(id, phone)
    \/ \E id \in ids, old \in phones, new \in phones : EditPhone(id, old, new)
    \/ \E id \in ids, phone \in phones : FindPhone(id, phone)
    \/ \E id \in ids, phone \in phones : RemovePhone(id, phone)

\* The calls on the book.
BookCalls(ids) ==
    \/ \E id \in ids : AddRecord(id)
    \/ \E name \in Names : Find(name)
    \/ \E name \in Names : Delete(name)

\* The whole program: records are created, filled and edited, put into the
\* book, looked up and deleted.
Next == RecordCalls(RecIds, ProgramPhones) \/ BookCalls(RecIds)

Spec == Init /\ [][Next]_vars

\* Phone construction alone, over PhoneStrings.
NextPhone == \E value \in PhoneStrings : NewPhone(value)

SpecPhone == Init /\ [][NextPhone]_vars

\* One record and its phone list.
NextRecord == RecordCalls({"r1"}, RecordPhones)

SpecRecord == Init /\ [][NextRecord]_vars

\* One record and its phone list, the last two calls recorded.
NextRecordPairs == RecordCalls({"r1"}, PairPhones)

SpecRecordPairs == InitRecorded /\ [][NextRecordPairs]_vars

\* The book and three records put into it, the last two calls recorded.
NextBook ==
    \/ \E id \in BookIds, name \in Names : NewRecord(id, name)
    \/ \E id \in BookIds, phone \in BookPhones : AddPhone(id, phone)
    \/ BookCalls(BookIds)

SpecBook == InitRecorded /\ [][NextBook]_vars

\* -------------------------------------------------------------- properties
\* s is exactly ten characters, each one of 0-9.
TenDecimalDigits(s) ==
    /\ Len(s) = 10
    /\ \A i \in 1..Len(s) : s[i] \in AsciiDigits

IsNone(v) == v.kind = "None"
IsTrue(v) == v.kind = "bool" /\ v.val = TRUE
IsFalse(v) == v.kind = "bool" /\ v.val = FALSE
IsStr(v, s) == v.kind = "str" /\ v.val = s
IsRef(v, id) == v.kind = "Record" /\ v.val = id
Raises(v) == v.kind = "raise" /\ v.val = "ValueError"

\* The values of the phones of a record, in order.
Values(phones) == [i \in 1..Len(phones) |-> phones[i].value]

Occurs(phones, phone) == \E i \in 1..Len(phones) : phones[i].value = phone

\* C1: Phone(s) raises ValueError, and yields no Phone, for every string s
\* that is not exactly ten characters each one of 0-9.
C1_NonTenDigitStringsRejected ==
    (last.op = "Phone" /\ ~TenDecimalDigits(last.phone)) => Raises(last.ret)

\* C2: Phone(s) succeeds for every string s of ten characters 0-9, and the
\* string rendering of the Phone equals s.
C2_TenDigitStringsAccepted ==
    (last.op = "Phone" /\ TenDecimalDigits(last.phone))
        => /\ last.ret.kind = "Phone"
           /\ Field_str(last.ret.val) = last.phone

C2_Witness ==
    /\ last.op = "Phone"
    /\ last.phone = P4
    /\ last.ret.kind = "Phone"
    /\ Field_str(last.ret.val) = P4

\* C3: a new Record "John" after add_phone("1234567890"),
\* add_phone("5555555555") and edit_phone("1234567890", "1112223333") renders
\* as "Contact name: John, phones: 1112223333; 5555555555".
C3_DemoEditRendering ==
    [][\A id \in DOMAIN records :
          (/\ records[id] = [name |-> Name("John"), phones |-> <<Field(P1), Field(P2)>>]
           /\ last'.op = "edit_phone" /\ last'.self = id
           /\ last'.phone = P1 /\ last'.new_phone = P3)
          => Record_str(records'[id])
                = "Contact name: John, phones: 1112223333; 5555555555"]_vars

\* C4: for a record in any reachable state and a valid phone p, add_phone(p)
\* followed by remove_phone(p) returns true, and find_phone(p) then returns None.
C4_AddRemoveThenNotFound ==
    (/\ prev.op = "add_phone" /\ TenDecimalDigits(prev.phone)
     /\ last.op = "remove_phone" /\ last.self = prev.self /\ last.phone = prev.phone)
    => /\ IsTrue(last.ret)
       /\ IsNone(find_phone(records[last.self], last.phone))

\* C4 as amended: add_phone(p) followed by remove_phone(p) returns true, and
\* find_phone(p) then returns None exactly when the record held no phone equal
\* to p before the add_phone (it returns p otherwise).  In the state between
\* the two calls the phones are the earlier ones followed by p.
C4_AddRemoveThenNotFoundUnlessDuplicate ==
    [][\A id \in DOMAIN records :
          (/\ last.op = "add_phone" /\ last.self = id /\ TenDecimalDigits(last.phone)
           /\ last'.op = "remove_phone" /\ last'.self = id /\ last'.phone = last.phone)
          => LET p      == last.phone
                 before == SubSeq(records[id].phones, 1, Len(records[id].phones) - 1)
                 found  == find_phone(records'[id], p)
             IN  /\ IsTrue(last'.ret)
                 /\ IF Occurs(before, p) THEN IsStr(found, p) ELSE IsNone(found)]_vars

C4_Witness ==
    /\ prev.op = "add_phone" /\ prev.phone = P1 /\ IsNone(prev.ret)
    /\ last.op = "remove_phone" /\ last.self = prev.self /\ last.phone = P1
    /\ IsTrue(last.ret)
    /\ IsNone(find_phone(records[last.self], P1))
    /\ Len(records[last.self].phones) > 0

\* C5: for a record in any reachable state and valid phones old and new,
\* add_phone(old) followed by edit_phone(old, new) returns true, and then
\* find_phone(old) returns None and find_phone(new) returns new.
C5_AddEditThenOldGone ==
    (/\ prev.op = "add_phone" /\ TenDecimalDigits(prev.phone)
     /\ last.op = "edit_phone" /\ last.self = prev.self /\ last.phone = prev.phone
     /\ TenDecimalDigits(last.new_phone))
    => /\ IsTrue(last.ret)
       /\ IsNone(find_phone(records[last.self], last.phone))
       /\ IsStr(find_phone(records[last.self], last.new_phone), last.new_phone)

\* C5 as amended: add_phone(old) followed by edit_phone(old, new) returns true
\* and find_phone(new) then returns new; find_phone(old) then returns None
\* exactly when old differs from new and the record held no phone equal to old
\* before the add_phone (it returns old otherwise).
C5_AddEditThenOldGoneUnlessDuplicate ==
    [][\A id \in DOMAIN records :
          (/\ last.op = "add_phone" /\ last.self = id /\ TenDecimalDigits(last.phone)
           /\ last'.op = "edit_phone" /\ last'.self = id /\ last'.phone = last.phone
           /\ TenDecimalDigits(last'.new_phone))
          => LET old    == last.phone
                 new    == last'.new_phone
                 before == SubSeq(records[id].phones, 1, Len(records[id].phones) - 1)
                 found  == find_phone(records'[id], old)
             IN  /\ IsTrue(last'.ret)
                 /\ IsStr(find_phone(records'[id], new), new)
                 /\ IF old # new /\ ~Occurs(before, old)
                    THEN IsNone(found) ELSE IsStr(found, old)]_vars

C5_Witness ==
    /\ prev.op = "add_phone" /\ prev.phone = P1 /\ IsNone(prev.ret)
    /\ last.op = "edit_phone" /\ last.self = prev.self
    /\ last.phone = P1 /\ last.new_phone = P2
    /\ IsTrue(last.ret)
    /\ IsNone(find_phone(records[last.self], P1))
    /\ IsStr(find_phone(records[last.self], P2), P2)

\* C6: when old is not among the stored phone values, edit_phone(old, new)
\* returns false, raises nothing whatever new is, and leaves the record's name
\* and phone sequence as they were.
C6_EditAbsentIsNoOp ==
    [][\A id \in DOMAIN records :
          (/\ last'.op = "edit_phone" /\ last'.self = id
           /\ ~Occurs(records[id].phones, last'.phone))
          => /\ IsFalse(last'.ret)
             /\ records'[id] = records[id]]_vars

C6_Witness ==
    /\ last.op = "edit_phone"
    /\ last.phone = P2 /\ last.new_phone = Letter
    /\ ~TenDecimalDigits(last.new_phone)
    /\ IsFalse(last.ret)
    /\ Values(records[last.self].phones) = <<P1, P3>>

\* C7: when old is among the stored phones and new is not a valid phone,
\* edit_phone(old, new) raises ValueError, the first entry equal to old is
\* removed, nothing is appended and the other entries keep their order.
C7_EditInvalidNewRemovesOld ==
    [][\A id \in DOMAIN records :
          (/\ last'.op = "edit_phone" /\ last'.self = id
           /\ Occurs(records[id].phones, last'.phone)
           /\ ~TenDecimalDigits(last'.new_phone))
          => /\ Raises(last'.ret)
             /\ records'[id].name = records[id].name
             /\ records'[id].phones
                   = RemoveAt(records[id].phones,
                              FirstIndex(records[id].phones, last'.phone))]_vars

\* What edit_phone does when old is stored and Phone rejects new: it raises,
\* and the first entry equal to old is gone.
EditRejectedNewRemovesOld ==
    [][\A id \in DOMAIN records :
          (/\ last'.op = "edit_phone" /\ last'.self = id
           /\ Occurs(records[id].phones, last'.phone)
           /\ Phone(last'.new_phone).kind = "raise")
          => /\ Raises(last'.ret)
             /\ records'[id].name = records[id].name
             /\ records'[id].phones
                   = RemoveAt(records[id].phones,
                              FirstIndex(records[id].phones, last'.phone))]_vars

\* The entries of d whose key is not name, in order.
Without(d, name) ==
    LET Other(e) == e.key # name
    IN  SelectSeq(d, Other)

SameResult(v, w) ==
    \/ IsNone(v) /\ IsNone(w)
    \/ v.kind = "Record" /\ w.kind = "Record" /\ v.val = w.val

\* C8: delete(name) returns true iff name is a key of the book, removes exactly
\* that entry and leaves every other entry as it was; after it returned true,
\* find(name) returns None, and a delete(name) that follows at once returns
\* false, raises nothing and leaves the book as it was.
C8_DeleteRemovesExactlyOnce ==
    [][last'.op = "delete" =>
          LET name == last'.name
          IN  /\ IF name \in Keys(data) THEN IsTrue(last'.ret) ELSE IsFalse(last'.ret)
              /\ data' = Without(data, name)
              /\ records' = records
              /\ IsTrue(last'.ret) => IsNone(find(data', name))
              /\ (last.op = "delete" /\ last.name = name /\ IsTrue(last.ret))
                    => (IsFalse(last'.ret) /\ data' = data)]_vars

C8_Witness ==
    /\ prev.op = "delete" /\ prev.name = "Jane" /\ IsTrue(prev.ret)
    /\ last.op = "delete" /\ last.name = "Jane" /\ IsFalse(last.ret)
    /\ IsNone(find(data, "Jane"))
    /\ Keys(data) = {"John"}

\* C9: after add_record(r), find(r.name) returns r itself, also when the book
\* held a different record under that name (which is replaced, no phones are
\* merged and nothing is raised); the entries under other names stay.
C9_AddRecordThenFind ==
    [][\A id \in DOMAIN records :
          (last'.op = "add_record" /\ last'.self = id)
          => LET name == records[id].name.value
             IN  /\ IsNone(last'.ret)
                 /\ IsRef(find(data', name), id)
                 /\ records' = records
                 /\ Keys(data') = Keys(data) \cup {name}
                 /\ Without(data', name) = Without(data, name)
                 /\ \A other \in Names \ {name} :
                       SameResult(find(data', other), find(data, other))]_vars

C9_Witness ==
    /\ prev.op = "add_record" /\ last.op = "add_record"
    /\ prev.self # last.self
    /\ prev.name = last.name
    /\ records[prev.self].phones # records[last.self].phones
    /\ IsRef(find(data, last.name), last.self)
    /\ Len(data) = 2

\* C10: in every reachable state every phone value stored in every record is
\* a string of exactly ten decimal digits.
C10_StoredPhonesAreTenDigits ==
    \A id \in DOMAIN records :
        \A i \in 1..Len(records[id].phones) :
            TenDecimalDigits(records[id].phones[i].value)

====
